---- MODULE Spec2Model ----
(***************************************************************************)
(* Lead-qualification chatbot backend (apps/chatbot): the request          *)
(* handlers of views.py over the ChatSession / ConversationContext /       *)
(* ChatMessage tables, with the intent detector, the information extractor *)
(* and the flow manager of services.py.                                    *)
(*                                                                         *)
(* Text is a sequence of one-character strings, so that substring and      *)
(* regular-expression matching are computed rather than assumed.           *)
(***************************************************************************)
EXTENDS Integers, Sequences, FiniteSets, Bags, TLC

VARIABLES sessions, contexts, messages, response, pc, loc, analysis

vars == <<sessions, contexts, messages, response, pc, loc, analysis>>

(***************************************************************************)
(* Characters and strings                                                  *)
(***************************************************************************)
UpperChars == <<"A","B","C","D","E","F","G","H","I","J","K","L","M",
                "N","O","P","Q","R","S","T","U","V","W","X","Y","Z">>

LowerChars == <<"a","b","c","d","e","f","g","h","i","j","k","l","m",
                "n","o","p","q","r","s","t","u","v","w","x","y","z">>

Digits == {"0","1","2","3","4","5","6","7","8","9"}

Range(s) == {s[i] : i \in DOMAIN s}

IsUpper(c) == c \in Range(UpperChars)

IsLower(c) == c \in Range(LowerChars)

IsLetter(c) == IsUpper(c) \/ IsLower(c)

IsSpace(c) == c \in {" ", "\t", "\n"}

\* regex \w
IsWord(c) == IsLetter(c) \/ c \in Digits \/ c = "_"

ToLower(c) == IF IsUpper(c) THEN LowerChars[CHOOSE i \in 1..26 : UpperChars[i] = c] ELSE c

ToUpper(c) == IF IsLower(c) THEN UpperChars[CHOOSE i \in 1..26 : LowerChars[i] = c] ELSE c

\* str.lower()
Lower(s) == [i \in 1..Len(s) |-> ToLower(s[i])]

\* str.strip()
Strip(s) ==
  LET keep == {i \in 1..Len(s) : ~IsSpace(s[i])}
  IN IF keep = {} THEN <<>>
     ELSE LET a == CHOOSE i \in keep : \A j \in keep : i <= j
              b == CHOOSE i \in keep : \A j \in keep : j <= i
          IN SubSeq(s, a, b)

\* str.title(): a letter is upper-cased when no letter precedes it, lower-cased otherwise
Title(s) ==
  [i \in 1..Len(s) |->
     IF IsLetter(s[i])
     THEN IF i > 1 /\ IsLetter(s[i-1]) THEN ToLower(s[i]) ELSE ToUpper(s[i])
     ELSE s[i]]

\* s occurs in t starting at position i
MatchAt(s, t, i) == i >= 1 /\ i + Len(s) - 1 <= Len(t) /\ SubSeq(t, i, i + Len(s) - 1) = s

\* Python: s in t
Contains(s, t) == \E i \in 1..(Len(t) + 1) : MatchAt(s, t, i)

Min(S) == CHOOSE x \in S : \A y \in S : x <= y

Max(S) == CHOOSE x \in S : \A y \in S : y <= x

\* Python None, distinct from every text (the empty text included)
None == <<"None">>

\* Python truthiness of an optional text
Truthy(v) == v # None /\ v # <<>>

(***************************************************************************)
(* services.py : IntentDetector.detect_intent                              *)
(***************************************************************************)
INTENT_PATTERNS ==
  << [intent |-> "demo_request", patterns |->
        << <<"d", "e", "m", "o">>,
           <<"d", "e", "m", "o", "n", "s", "t", "r", "a", "t", "i", "o", "n">>,
           <<"s", "h", "o", "w", " ", "m", "e">>,
           <<"c", "a", "n", " ", "i", " ", "s", "e", "e">>,
           <<"b", "o", "o", "k", " ", "a", " ", "c", "a", "l", "l">>,
           <<"s", "c", "h", "e", "d", "u", "l", "e">>,
           <<"m", "e", "e", "t", "i", "n", "g">>,
           <<"b", "o", "o", "k">>,
           <<"c", "a", "l", "e", "n", "d", "l", "y">>,
           <<"a", "p", "p", "o", "i", "n", "t", "m", "e", "n", "t">>,
           <<"t", "a", "l", "k", " ", "t", "o">>,
           <<"s", "p", "e", "a", "k", " ", "w", "i", "t", "h">> >>],
     [intent |-> "pricing_inquiry", patterns |->
        << <<"p", "r", "i", "c", "e">>,
           <<"c", "o", "s", "t">>,
           <<"p", "r", "i", "c", "i", "n", "g">>,
           <<"h", "o", "w", " ", "m", "u", "c", "h">>,
           <<"e", "x", "p", "e", "n", "s", "i", "v", "e">>,
           <<"p", "a", "y", "m", "e", "n", "t">>,
           <<"s", "u", "b", "s", "c", "r", "i", "p", "t", "i", "o", "n">>,
           <<"p", "l", "a", "n">>,
           <<"f", "e", "e">> >>],
     [intent |-> "product_inquiry", patterns |->
        << <<"a", "r", "g", "o">>,
           <<"m", "a", "r", "k">>,
           <<"c", "o", "n", "s", "u", "e", "l", "o">>,
           <<"f", "e", "a", "t", "u", "r", "e">>,
           <<"w", "h", "a", "t", " ", "d", "o", "e", "s">>,
           <<"h", "o", "w", " ", "d", "o", "e", "s">>,
           <<"c", "a", "p", "a", "b", "i", "l", "i", "t", "y">>,
           <<"c", "a", "n", " ", "i", "t">>,
           <<"t", "e", "l", "l", " ", "m", "e", " ", "a", "b", "o", "u", "t">> >>],
     [intent |-> "technical_question", patterns |->
        << <<"i", "n", "t", "e", "g", "r", "a", "t", "e">>,
           <<"a", "p", "i">>,
           <<"t", "e", "c", "h", "n", "i", "c", "a", "l">>,
           <<"s", "e", "t", "u", "p">>,
           <<"i", "m", "p", "l", "e", "m", "e", "n", "t", "a", "t", "i", "o", "n">>,
           <<"h", "o", "w", " ", "l", "o", "n", "g">>,
           <<"i", "n", "s", "t", "a", "l", "l">>,
           <<"d", "e", "p", "l", "o", "y">> >>],
     [intent |-> "general_inquiry", patterns |->
        << <<"w", "h", "a", "t", " ", "i", "s">>,
           <<"e", "x", "p", "l", "a", "i", "n">>,
           <<"h", "e", "l", "p">>,
           <<"h", "e", "l", "l", "o">>,
           <<"h", "i">> >>],
     [intent |-> "provide_info", patterns |->
        << <<"m", "y", " ", "n", "a", "m", "e", " ", "i", "s">>,
           <<"i", " ", "a", "m">>,
           <<"e", "m", "a", "i", "l">>,
           <<"@">>,
           <<"c", "o", "m", "p", "a", "n", "y">>,
           <<"w", "o", "r", "k", " ", "a", "t">>,
           <<"f", "r", "o", "m">> >>],
     [intent |-> "confirmation", patterns |->
        << <<"y", "e", "s">>,
           <<"s", "u", "r", "e">>,
           <<"o", "k">>,
           <<"y", "e", "a", "h">>,
           <<"y", "e", "p">>,
           <<"c", "o", "r", "r", "e", "c", "t">>,
           <<"r", "i", "g", "h", "t">>,
           <<"e", "x", "a", "c", "t", "l", "y">> >>] >>

\* number of patterns of table entry k that occur in the lower-cased message
Score(k, message_lower) ==
  Cardinality({j \in DOMAIN INTENT_PATTERNS[k].patterns :
                 Contains(INTENT_PATTERNS[k].patterns[j], message_lower)})

\* variant of detect_intent in which a tie goes to the intent declared last
detect_intent_last(message) ==
  LET message_lower == Strip(Lower(message))
      intent_scores == {k \in DOMAIN INTENT_PATTERNS : Score(k, message_lower) > 0}
  IN IF intent_scores = {}
     THEN [intent |-> "general_inquiry", confidence |-> <<1, 2>>]
     ELSE LET k == Max({a \in intent_scores :
                          \A b \in intent_scores : Score(b, message_lower) <= Score(a, message_lower)})
              max_score == Score(k, message_lower)
          IN [intent |-> INTENT_PATTERNS[k].intent,
              confidence |-> <<IF max_score < 3 THEN max_score ELSE 3, 3>>]

\* confidence is a fraction <<numerator, denominator>>: 0.5 is <<1, 2>>,
\* min(score / 3.0, 1.0) is <<min(score, 3), 3>>
detect_intent(message) ==
  LET message_lower == Strip(Lower(message))
      intent_scores == {k \in DOMAIN INTENT_PATTERNS : Score(k, message_lower) > 0}
  IN IF intent_scores = {}
     THEN [intent |-> "general_inquiry", confidence |-> <<1, 2>>]
     ELSE LET \* max(dict, key=dict.get): the first key, in insertion order, of maximal score
              k == Min({a \in intent_scores :
                          \A b \in intent_scores : Score(b, message_lower) <= Score(a, message_lower)})
              max_score == Score(k, message_lower)
          IN [intent |-> INTENT_PATTERNS[k].intent,
              confidence |-> <<IF max_score < 3 THEN max_score ELSE 3, 3>>]

(***************************************************************************)
(* services.py : IntentDetector.extract_user_info                          *)
(*                                                                         *)
(* Every pattern is searched with re.IGNORECASE, so [A-Z] and [a-z] both   *)
(* match any letter and the literal prefixes match in any letter case.     *)
(***************************************************************************)
\* a literal of a pattern matches at position i, ignoring case; the element
\* "\\s" of a literal stands for one whitespace character
MatchLit(lit, t, i) ==
  /\ i >= 1
  /\ i + Len(lit) - 1 <= Len(t)
  /\ \A k \in 1..Len(lit) :
        IF lit[k] = "\\s" THEN IsSpace(t[i + k - 1]) ELSE ToLower(t[i + k - 1]) = lit[k]

\* \b between positions p-1 and p
WordBoundary(t, p) ==
  (p > 1 /\ IsWord(t[p - 1])) # (p <= Len(t) /\ IsWord(t[p]))

\* (?:\s|$)
SpaceOrEnd(t, p) == p > Len(t) \/ IsSpace(t[p])

IsLocalChar(c) == IsLetter(c) \/ c \in Digits \/ c \in {".", "_", "%", "+", "-"}

IsDomainChar(c) == IsLetter(c) \/ c \in Digits \/ c \in {".", "-"}

\* [A-Z|a-z]
IsTldChar(c) == IsLetter(c) \/ c = "|"

\* membership of a character in a named character class of the patterns
InClass(class, c) ==
  CASE class = "local"  -> IsLocalChar(c)
    [] class = "domain" -> IsDomainChar(c)
    [] class = "tld"    -> IsTldChar(c)
    [] class = "letter" -> IsLetter(c)
    [] class = "space"  -> IsSpace(c)

\* length of the longest run of characters of the class that starts at position i
RunLen(class, t, i) ==
  Max({n \in 0..(Len(t) - i + 1) : \A j \in i..(i + n - 1) : InClass(class, t[j])})

\* email_pattern matched at start position i: the end position of the match, 0 when none.
\* [..]+@ fixes the local part; the greedy domain gives the last dot after which
\* a top-level part of two or more characters ends at a word boundary, and the
\* greedy top-level part is the longest such.
EmailEnd(t, i) ==
  LET n  == RunLen("local", t, i)
      at == i + n
  IN IF ~(WordBoundary(t, i) /\ n >= 1 /\ at <= Len(t) /\ t[at] = "@") THEN 0
     ELSE LET e    == at + RunLen("domain", t, at + 1)
              Tld(p) == {k \in 2..RunLen("tld", t, p + 1) : WordBoundary(t, p + k + 1)}
              dots == {p \in (at + 2)..e : t[p] = "." /\ Tld(p) # {}}
          IN IF dots = {} THEN 0 ELSE Max(dots) + Max(Tld(Max(dots)))

\* re.search(email_pattern, message): the leftmost match, None when there is none
extract_email(message) ==
  LET starts == {i \in 1..Len(message) : EmailEnd(message, i) > 0}
  IN IF starts = {} THEN None
     ELSE SubSeq(message, Min(starts), EmailEnd(message, Min(starts)))

\* end of [A-Z][a-z]+(?:\s+[A-Z][a-z]+)? matched from position j, 0 when no match;
\* anchored is TRUE for the second pattern, whose group must be followed by (?:\s|$)
NameGroupEnd(t, j, anchored) ==
  LET n1 == RunLen("letter", t, j)
      e1 == j + n1 - 1
      w  == RunLen("space", t, e1 + 1)
      n2 == RunLen("letter", t, e1 + 1 + w)
      e2 == e1 + w + n2
      second == w >= 1 /\ n2 >= 2
  IN IF n1 < 2 THEN 0
     ELSE IF anchored
          THEN IF second /\ SpaceOrEnd(t, e2 + 1) THEN e2
               ELSE IF SpaceOrEnd(t, e1 + 1) THEN e1 ELSE 0
          ELSE IF second THEN e2 ELSE e1

\* a match of  (?:lit1|lit2|...)\s+(group)  : <<i, k>> is a candidate when literal k
\* matches at i and is followed by whitespace; GroupStart is where the group begins
GroupStart(lits, t, i, k) == i + Len(lits[k]) + RunLen("space", t, i + Len(lits[k]))

Candidates(lits, t, group_end) ==
  {c \in (1..Len(t)) \X DOMAIN lits :
     /\ MatchLit(lits[c[2]], t, c[1])
     /\ RunLen("space", t, c[1] + Len(lits[c[2]])) >= 1
     /\ group_end[GroupStart(lits, t, c[1], c[2])] > 0}

\* re.search: the leftmost start, and there the first alternative that matches
FirstCandidate(C) ==
  CHOOSE c \in C : \A d \in C : c[1] < d[1] \/ (c[1] = d[1] /\ c[2] <= d[2])

\* group(1) of the search, None when the pattern does not match; group_end[j] is the
\* end of the group when it starts at position j, 0 when it does not match there
SearchGroup(lits, t, group_end) ==
  LET C == Candidates(lits, t, group_end)
  IN IF C = {} THEN None
     ELSE LET c == FirstCandidate(C)
              j == GroupStart(lits, t, c[1], c[2])
          IN SubSeq(t, j, group_end[j])

NAME_PREFIXES ==
  << <<"m", "y", " ", "n", "a", "m", "e", " ", "i", "s">>,
     <<"i", "'", "m">>,
     <<"i", " ", "a", "m">>,
     <<"t", "h", "i", "s", " ", "i", "s">>,
     <<"c", "a", "l", "l", " ", "m", "e">> >>

NAME_BLOCKLIST ==
  { <<"y", "e", "s">>,
    <<"n", "o">>,
    <<"o", "k">>,
    <<"s", "u", "r", "e">>,
    <<"h", "e", "l", "l", "o">>,
    <<"h", "i">> }

\* name_patterns[0]
NameMatch1(message) ==
  SearchGroup(NAME_PREFIXES, message,
              [j \in 1..(Len(message) + 1) |-> NameGroupEnd(message, j, FALSE)])

\* name_patterns[1]: anchored at the start of the message
NameMatch2(message) ==
  IF NameGroupEnd(message, 1, TRUE) > 0
  THEN SubSeq(message, 1, NameGroupEnd(message, 1, TRUE))
  ELSE None

\* the test that filters out common false positives
NameAccepted(potential_name) == Lower(potential_name) \notin NAME_BLOCKLIST

\* the loop over name_patterns: the first pattern whose match passes the filter
extract_name(message) ==
  LET m1 == NameMatch1(message)
      m2 == NameMatch2(message)
  IN IF m1 # None /\ NameAccepted(Strip(m1)) THEN Title(Strip(m1))
     ELSE IF m2 # None /\ NameAccepted(Strip(m2)) THEN Title(Strip(m2))
     ELSE None

COMPANY_PREFIXES_1 ==
  << <<"w", "o", "r", "k", " ", "a", "t">>,
     <<"f", "r", "o", "m">>,
     <<"c", "o", "m", "p", "a", "n", "y", " ", "i", "s">>,
     <<"i", " ", "w", "o", "r", "k", " ", "f", "o", "r">>,
     <<"m", "y", " ", "c", "o", "m", "p", "a", "n", "y">>,
     <<"c", "o", "m", "p", "a", "n", "y", ":">>,
     <<"a", "t">> >>

\* i(?:'m|\sam) (?:at|with|in)
COMPANY_PREFIXES_2 ==
  << <<"i", "'", "m", " ", "a", "t">>,
     <<"i", "'", "m", " ", "w", "i", "t", "h">>,
     <<"i", "'", "m", " ", "i", "n">>,
     <<"i", "\\s", "a", "m", " ", "a", "t">>,
     <<"i", "\\s", "a", "m", " ", "w", "i", "t", "h">>,
     <<"i", "\\s", "a", "m", " ", "i", "n">> >>

COMPANY_BLOCKLIST ==
  { <<"g", "m", "a", "i", "l">>,
    <<"y", "a", "h", "o", "o">>,
    <<"h", "o", "t", "m", "a", "i", "l">>,
    <<"o", "u", "t", "l", "o", "o", "k">>,
    <<"t", "h", "e">>,
    <<"a">>,
    <<"a", "n">> }

IsCompanyChar(c) == IsLetter(c) \/ c \in Digits \/ IsSpace(c) \/ c \in {"&", ".", "-"}

\* (?:\s|$|\.|,)
CompanyTerminator(t, p) == SpaceOrEnd(t, p) \/ t[p] \in {".", ","}

\* end of ([A-Z][A-Za-z0-9\s&.-]+?) matched from position j, 0 when no match:
\* a letter, then the fewest characters (at least one) that reach a terminator
CompanyGroupEnd(t, j) ==
  IF ~(j <= Len(t) /\ IsLetter(t[j])) THEN 0
  ELSE LET ends == {e \in (j + 1)..Len(t) :
                      /\ \A x \in (j + 1)..e : IsCompanyChar(t[x])
                      /\ CompanyTerminator(t, e + 1)}
       IN IF ends = {} THEN 0 ELSE Min(ends)

IsTrailingPunct(c) == c \in {".", ",", ";", "!", "?"}

\* re.sub(r'[.,;!?]+$', '', s)
StripTrailingPunct(s) ==
  SubSeq(s, 1, Max({n \in 0..Len(s) : \A x \in (n + 1)..Len(s) : IsTrailingPunct(s[x])} \cap
                   {n \in 0..Len(s) : n = 0 \/ ~IsTrailingPunct(s[n])}))

CompanyAccepted(potential_company) ==
  Len(potential_company) > 1 /\ Lower(potential_company) \notin COMPANY_BLOCKLIST

\* the loop over company_patterns
extract_company(message) ==
  LET group_end == [j \in 1..(Len(message) + 1) |-> CompanyGroupEnd(message, j)]
      m1 == SearchGroup(COMPANY_PREFIXES_1, message, group_end)
      m2 == SearchGroup(COMPANY_PREFIXES_2, message, group_end)
  IN IF m1 # None /\ CompanyAccepted(Strip(m1)) THEN Title(StripTrailingPunct(Strip(m1)))
     ELSE IF m2 # None /\ CompanyAccepted(Strip(m2)) THEN Title(StripTrailingPunct(Strip(m2)))
     ELSE None

extract_user_info(message) ==
  [name |-> extract_name(message),
   email |-> extract_email(message),
   company |-> extract_company(message)]

(***************************************************************************)
(* Message texts of the requests, and what the detector and the extractor  *)
(* compute for each of them                                                *)
(***************************************************************************)
MSG_INTRO == <<"H", "i", ",", " ", "I", "'", "m", " ", "J", "a", "n", "e", " ", "D", "o", "e", ",", " ", "j", "a", "n", "e", "@", "a", "c", "m", "e", ".", "c", "o", "m">>

MSG_DEMO == <<"I", "'", "d", " ", "l", "i", "k", "e", " ", "t", "o", " ", "b", "o", "o", "k", " ", "a", " ", "d", "e", "m", "o">>

MSG_WORK == <<"I", "'", "m", " ", "B", "o", "b", ",", " ", "I", " ", "w", "o", "r", "k", " ", "a", "t", " ", "I", "n", "i", "t", "e", "c", "h">>

MSG_PRICE == <<"I", " ", "w", "a", "n", "t", " ", "a", "r", "g", "o", " ", "p", "r", "i", "c", "i", "n", "g">>

MSG_BLANK == <<" ", " ">>

\* message texts that pass validation
Messages == {MSG_INTRO, MSG_DEMO, MSG_WORK, MSG_PRICE}

\* message texts that a client may send
RawMessages == Messages \cup {MSG_BLANK}

MSG_MARK == <<"T", "e", "l", "l", " ", "m", "e", " ", "a", "b", "o", "u", "t", " ", "M", "A", "R", "K">>

MSG_TWO == <<"c", "o", "n", "s", "u", "e", "l", "o", " ", "o", "r", " ", "A", "r", "g", "o", "?">>

MSG_ARGO == <<"a", "r", "g", "o">>

\* message texts of a conversation about the products
ProductMessages == {MSG_MARK, MSG_TWO, MSG_ARGO, MSG_DEMO}

PRODUCTS ==
  << [key |-> <<"a", "r", "g", "o">>, tag |-> "ARGO"],
     [key |-> <<"m", "a", "r", "k">>, tag |-> "MARK"],
     [key |-> <<"c", "o", "n", "s", "u", "e", "l", "o">>, tag |-> "CONSUELO"] >>


\* the list `products` that _update_conversation_context builds from a message, as a set
mentioned_products(message) ==
  {PRODUCTS[i].tag : i \in {j \in DOMAIN PRODUCTS : Contains(PRODUCTS[j].key, Lower(message))}}

\* serializers.py, ChatRequestSerializer.message: the text is trimmed, then
\* required to be non-blank and at most 5000 characters long
MAX_LENGTH == 5000

MessageValid(raw) == Strip(raw) # <<>> /\ Len(Strip(raw)) <= MAX_LENGTH

\* serializer.is_valid() and validated_data['message'] for the texts a client
\* may send, computed once
ValidationTable ==
  {[raw |-> r, valid |-> MessageValid(r), message |-> Strip(r)] :
     r \in RawMessages \cup ProductMessages}

Validation(raw) == CHOOSE r \in ValidationTable : r.raw = raw

\* what the handler computes from the text of a message alone
AnalysisOf(m) ==
  [message |-> m, detected |-> detect_intent(m), info |-> extract_user_info(m),
   products |-> mentioned_products(m)]

\* the results of detect_intent, extract_user_info and the product scan for the
\* validated messages, computed once
MessageTable == {AnalysisOf(m) : m \in {Strip(r) : r \in RawMessages \cup ProductMessages}}

Analysis(message) == CHOOSE r \in MessageTable : r.message = message

(***************************************************************************)
(* services.py : ConversationFlowManager, ConversationAnalyzer             *)
(***************************************************************************)
\* variant of get_missing_info that requires the company whether or not a demo was asked for
get_missing_info_company_always(context) ==
  (IF ~context.has_name THEN <<"name">> ELSE <<>>) \o
  (IF ~context.has_email THEN <<"email">> ELSE <<>>) \o
  (IF ~context.has_company THEN <<"company">> ELSE <<>>)

\* the list `missing`, in the order of the appends
get_missing_info(context) ==
  (IF ~context.has_name THEN <<"name">> ELSE <<>>) \o
  (IF ~context.has_email THEN <<"email">> ELSE <<>>) \o
  (IF ~context.has_company /\ context.asked_for_demo THEN <<"company">> ELSE <<>>)

\* variant of the qualification test that asks for all four criteria
is_qualified_lead_all(session, context) ==
  /\ context.has_name /\ context.has_email
  /\ BagCardinality(context.preferred_products) > 0
  /\ session.total_messages >= 3
  /\ context.asked_for_demo \/ context.asked_for_pricing

\* sum(criteria.values())
Count(bools) == Cardinality({i \in DOMAIN bools : bools[i]})

is_qualified_lead(session, context) ==
  LET has_contact_info     == context.has_name /\ context.has_email
      showed_interest      == BagCardinality(context.preferred_products) > 0
      engaged_conversation == session.total_messages >= 3
      high_intent          == context.asked_for_demo \/ context.asked_for_pricing
  IN Count(<<has_contact_info, showed_interest, engaged_conversation, high_intent>>) >= 3

(***************************************************************************)
(* models.py : rows of the three tables                                    *)
(***************************************************************************)
STATUS_CHOICES == {"active", "qualified", "archived", "escalated"}

\* ChatSession.objects.create(...): the column defaults of the model
NewSession(user_name, user_email, company_name) ==
  [user_name |-> user_name, user_email |-> user_email, user_phone |-> None,
   company_name |-> company_name, status |-> "active",
   is_qualified_lead |-> FALSE, total_messages |-> 0]

\* ConversationContext column defaults; preferred_products is the stored list up
\* to the order of its elements, a bag of tags (list(set(...)) fixes no order)
NewContext(has_name, has_email, has_company) ==
  [current_step |-> "greeting", has_name |-> has_name, has_email |-> has_email,
   has_company |-> has_company, preferred_products |-> EmptyBag,
   asked_for_demo |-> FALSE, asked_for_pricing |-> FALSE]

\* variant of increment_message_count that counts the user message and the reply
increment_message_count_both(session) ==
  [session EXCEPT !.total_messages = @ + 2]

\* ChatSession.increment_message_count
increment_message_count(session) ==
  [session EXCEPT !.total_messages = @ + 1]

NoMessage == 0

\* ChatMessage rows, the id being the position in the table.  The columns that
\* the handlers write once and never read back (content, detected_intent,
\* confidence_score, response_time_ms, model_used) are left out.
UserMessage(sid) ==
  [session |-> sid, message_type |-> "user", parent_message |-> NoMessage]

\* variant of the bot message that is stored without parent_message
BotMessage_orphan(sid, parent) ==
  [session |-> sid, message_type |-> "bot", parent_message |-> NoMessage]

BotMessage(sid, parent) ==
  [session |-> sid, message_type |-> "bot", parent_message |-> parent]

(***************************************************************************)
(* views.py : helper functions                                             *)
(***************************************************************************)
\* bool(x) of an optional text
Bool(v) == Truthy(v)

\* session_id of a request: NoToken when the field is absent or null,
\* UnknownToken for a well-formed id that matches no row
NoToken == 0

UnknownToken == -1

\* variant of _get_or_create_session that seeds the flags with `is not None`
\* instead of bool(...)
get_or_create_session_not_none(ss, cs, session_id, request_data) ==
  IF session_id # NoToken /\ session_id \in DOMAIN ss
  THEN [sid |-> session_id, sessions |-> ss, contexts |-> cs, created |-> FALSE]
  ELSE LET session == NewSession(request_data.user_name, request_data.user_email,
                                 request_data.company_name)
           context == NewContext(session.user_name # None, session.user_email # None,
                                 session.company_name # None)
       IN [sid |-> Len(ss) + 1, sessions |-> Append(ss, session),
           contexts |-> Append(cs, context), created |-> TRUE]

\* _get_or_create_session: the tables after the call and the id of the session
get_or_create_session(ss, cs, session_id, request_data) ==
  IF session_id # NoToken /\ session_id \in DOMAIN ss
  THEN [sid |-> session_id, sessions |-> ss, contexts |-> cs, created |-> FALSE]
  ELSE LET session == NewSession(request_data.user_name, request_data.user_email,
                                 request_data.company_name)
           context == NewContext(Bool(session.user_name), Bool(session.user_email),
                                 Bool(session.company_name))
       IN [sid |-> Len(ss) + 1, sessions |-> Append(ss, session),
           contexts |-> Append(cs, context), created |-> TRUE]

\* variant of the merge that drops the `and not session.<field>` tests,
\* so that a later extracted value replaces a stored one
extract_and_update_user_info_overwrite(extracted_info, session, context) ==
  LET n == Truthy(extracted_info.name)
      e == Truthy(extracted_info.email)
      c == Truthy(extracted_info.company)
  IN [session |-> [session EXCEPT
                     !.user_name    = IF n THEN extracted_info.name ELSE @,
                     !.user_email   = IF e THEN extracted_info.email ELSE @,
                     !.company_name = IF c THEN extracted_info.company ELSE @],
      context |-> [context EXCEPT
                     !.has_name    = IF n THEN TRUE ELSE @,
                     !.has_email   = IF e THEN TRUE ELSE @,
                     !.has_company = IF c THEN TRUE ELSE @]]

\* _extract_and_update_user_info: the session and context after the merge
extract_and_update_user_info(extracted_info, session, context) ==
  LET n == Truthy(extracted_info.name) /\ ~Truthy(session.user_name)
      e == Truthy(extracted_info.email) /\ ~Truthy(session.user_email)
      c == Truthy(extracted_info.company) /\ ~Truthy(session.company_name)
  IN [session |-> [session EXCEPT
                     !.user_name    = IF n THEN extracted_info.name ELSE @,
                     !.user_email   = IF e THEN extracted_info.email ELSE @,
                     !.company_name = IF c THEN extracted_info.company ELSE @],
      context |-> [context EXCEPT
                     !.has_name    = IF n THEN TRUE ELSE @,
                     !.has_email   = IF e THEN TRUE ELSE @,
                     !.has_company = IF c THEN TRUE ELSE @]]

\* variant of the step chain with the "still collecting" rule of get_next_step
\* applied from any step: the step returns to info_collection while information
\* is missing
update_step_back(context) ==
  LET missing_info == get_missing_info(context)
  IN IF missing_info # <<>>
     THEN [context EXCEPT !.current_step = "info_collection"]
     ELSE IF context.current_step = "info_collection"
     THEN [context EXCEPT !.current_step = "product_discussion"]
     ELSE IF context.asked_for_demo
     THEN [context EXCEPT !.current_step = "demo_booking"]
     ELSE context

\* variant of the chain that follows the 'next' entries of the step table past
\* product_discussion and demo_booking
update_step_table(context) ==
  LET missing_info == get_missing_info(context)
  IN IF missing_info # <<>> /\ context.current_step = "greeting"
     THEN [context EXCEPT !.current_step = "info_collection"]
     ELSE IF missing_info = <<>> /\ context.current_step = "info_collection"
     THEN [context EXCEPT !.current_step = "product_discussion"]
     ELSE IF context.current_step = "demo_booking"
     THEN [context EXCEPT !.current_step = "completed"]
     ELSE IF context.asked_for_demo /\ missing_info = <<>>
     THEN [context EXCEPT !.current_step = "demo_booking"]
     ELSE context

\* the if / elif / elif chain that updates current_step
update_step(context) ==
  LET missing_info == get_missing_info(context)
  IN IF missing_info # <<>> /\ context.current_step = "greeting"
     THEN [context EXCEPT !.current_step = "info_collection"]
     ELSE IF missing_info = <<>> /\ context.current_step = "info_collection"
     THEN [context EXCEPT !.current_step = "product_discussion"]
     ELSE IF context.asked_for_demo /\ missing_info = <<>>
     THEN [context EXCEPT !.current_step = "demo_booking"]
     ELSE context

\* variant of the product tracking that extends the stored list with the tags of
\* the message, without going through a set
add_products_extend(preferred_products, products) ==
  preferred_products (+) SetToBag(products)

\* lines 358-370 of _update_conversation_context: the stored list is replaced
\* only when the message mentions a product
add_products(preferred_products, products) ==
  IF products # {}
  THEN SetToBag(BagToSet(preferred_products) \cup products)
  ELSE preferred_products

\* variant of _update_conversation_context that records a demo request only
\* once the step has been updated, on the next message
update_conversation_context_late(context, intent, message) ==
  update_step([context EXCEPT
                 !.asked_for_pricing  = IF intent = "pricing_inquiry" THEN TRUE ELSE @,
                 !.preferred_products = add_products(@, Analysis(message).products)])

\* _update_conversation_context
update_conversation_context(context, intent, message) ==
  update_step([context EXCEPT
                 !.asked_for_demo     = IF intent = "demo_request" THEN TRUE ELSE @,
                 !.asked_for_pricing  = IF intent = "pricing_inquiry" THEN TRUE ELSE @,
                 !.preferred_products = add_products(@, Analysis(message).products)])

\* _get_suggested_actions
get_suggested_actions(context, intent) ==
  IF intent = "product_inquiry"
  THEN IF context.preferred_products = EmptyBag
       THEN <<"Tell me about ARGO", "Tell me about MARK", "Tell me about CONSUELO">>
       ELSE <<"Book a demo", "See pricing", "Integration options">>
  ELSE IF intent = "demo_request" THEN <<"Yes, book a demo", "Tell me more first">>
  ELSE IF intent = "pricing_inquiry" THEN <<"Book a demo", "See features">>
  ELSE <<>>

(***************************************************************************)
(* Requests                                                                *)
(***************************************************************************)
\* bound of the model: the number of chat requests that are answered
MaxChats == 6

\* the ids of the sessions the model follows: sessions share no state, and a
\* request that would create a further session is left out
SessionIds == {1}

\* a field that the request body does not carry
Absent == <<"Absent">>

TXT_ANN == <<"A", "n", "n", " ", "L", "e", "e">>

TXT_ANN_EMAIL == <<"a", "n", "n", "@", "x", ".", "i", "o">>

TXT_ACME == <<"A", "c", "m", "e">>

TXT_PHONE == <<"5", "5", "5">>

\* user_name / user_email / company_name that a chat request may supply
\* (request_data.get(...) is None for a field the request does not carry)
StartInfos ==
  { [user_name |-> None, user_email |-> None, company_name |-> None],
    [user_name |-> TXT_ANN, user_email |-> TXT_ANN_EMAIL, company_name |-> None],
    [user_name |-> <<>>, user_email |-> None, company_name |-> TXT_ACME] }

\* bodies of update-info requests, session_id apart
UpdateBodies ==
  { [user_name |-> <<>>, user_email |-> Absent, user_phone |-> Absent, company_name |-> Absent],
    [user_name |-> Absent, user_email |-> TXT_ANN_EMAIL, user_phone |-> TXT_PHONE, company_name |-> TXT_ACME] }

\* session ids a request may name
Tokens == {UnknownToken} \cup SessionIds


\* DEMO_BOOKING_LINK
DEMO_BOOKING_LINK == "https://calendly.com/l-kush-ofiservices/sia"

\* known_info of build_context_enhanced_prompt: the fields of the session that
\* hold a value, as <<label, value>>
known_info(session) ==
  SelectSeq(<< <<"Name", session.user_name>>, <<"Email", session.user_email>>,
               <<"Company", session.company_name>> >>,
            LAMBDA field : Truthy(field[2]))

\* the third and fourth annotations: interests and demo request
interest_parts(session, context) ==
  (IF context.preferred_products # EmptyBag
   THEN << <<"Interested in", context.preferred_products>> >> ELSE <<>>)
  \o (IF context.asked_for_demo
      THEN << IF Truthy(session.company_name)
              THEN <<"DEMO REQUESTED - USER HAS ALL INFO - PROVIDE LINK", DEMO_BOOKING_LINK>>
              ELSE <<"DEMO REQUESTED - Need company name, then provide link", "">> >>
      ELSE <<>>)

\* GeminiService.build_context_enhanced_prompt: the annotations (context_parts),
\* each as <<text, detail>>, and the user message that follows them
build_context_enhanced_prompt(user_message, session, context) ==
  [context_parts |->
     (IF known_info(session) # <<>>
      THEN << <<"Already collected", known_info(session)>> >> ELSE <<>>)
     \o << IF get_missing_info(context) # <<>>
           THEN <<"Still need", get_missing_info(context)>>
           ELSE <<"All basic info collected", <<>> >> >>
     \o interest_parts(session, context),
   user_message |-> user_message]

\* the number of messages read for the history
HISTORY_LIMIT == 10

\* variant of the history that keeps the last message read
conversation_history_keep_last(ms, sid) ==
  LET ids == SelectSeq([i \in 1..Len(ms) |-> i], LAMBDA i : ms[i].session = sid)
  IN SubSeq(ids, 1, Min({HISTORY_LIMIT, Len(ids)}))

\* list(session.messages.all().order_by('timestamp')[:10])[:-1]: the ids of the
\* messages handed to generate_response (messages are stored in timestamp order)
conversation_history(ms, sid) ==
  LET ids   == SelectSeq([i \in 1..Len(ms) |-> i], LAMBDA i : ms[i].session = sid)
      first == SubSeq(ids, 1, Min({HISTORY_LIMIT, Len(ids)}))
  IN SubSeq(first, 1, Len(first) - 1)

\* GeminiService.build_conversation_history: role and message of each entry
build_conversation_history(ms, history) ==
  [k \in DOMAIN history |->
     [role    |-> IF ms[history[k]].message_type = "user" THEN "user" ELSE "model",
      message |-> history[k]]]

\* the payload of generate_response: the history followed by the current user
\* message, whose text is the enhanced prompt
payload(ms, history, user_msg, prompt) ==
  [contents |-> Append(build_conversation_history(ms, history),
                       [role |-> "user", message |-> user_msg]),
   prompt   |-> prompt]

\* lines 94-105: the history is read and the backend is called with the session
\* and the context as they are after the updates
call_backend(g, ms, intent, user_message, session, context) ==
  [sid |-> g.sid, created |-> g.created, intent |-> intent,
   sessions |-> [g.sessions EXCEPT ![g.sid] = session],
   contexts |-> [g.contexts EXCEPT ![g.sid] = context],
   messages |-> Append(ms, UserMessage(g.sid)),
   user_msg |-> Len(ms) + 1,
   backend_request |->
     payload(Append(ms, UserMessage(g.sid)),
             conversation_history(Append(ms, UserMessage(g.sid)), g.sid),
             Len(ms) + 1,
             build_context_enhanced_prompt(user_message, session, context))]

\* lines 72-105 of the atomic block, once the session g.sid is at hand and the
\* merge u of the extracted information has been made
record_message(g, ms, intent, user_message, u) ==
  call_backend(g, ms, intent, user_message, u.session,
               update_conversation_context(u.context, intent, user_message))

\* lines 79-85: intent detection and extraction (the analysis a of the message),
\* then the merge into the session and context of g
analyse_message(g, ms, user_message, a) ==
  record_message(g, ms, a.detected.intent, user_message,
                 extract_and_update_user_info(a.info, g.sessions[g.sid], g.contexts[g.sid]))

\* the atomic block up to the backend call: the tables, the id of the session
\* and the position of the user message
before_backend(ss, cs, ms, session_id, request_data, user_message) ==
  analyse_message(get_or_create_session(ss, cs, session_id, request_data), ms,
                  user_message, Analysis(user_message))

\* the rest of the atomic block, after the backend has answered
after_backend(b) ==
  LET counted == increment_message_count(b.sessions[b.sid])
      session == IF is_qualified_lead(counted, b.contexts[b.sid])
                 THEN [counted EXCEPT !.is_qualified_lead = TRUE, !.status = "qualified"]
                 ELSE counted
  IN [sid |-> b.sid, created |-> b.created, backend_request |-> b.backend_request,
      sessions |-> [b.sessions EXCEPT ![b.sid] = session],
      contexts |-> b.contexts,
      messages |-> Append(b.messages, BotMessage(b.sid, b.user_msg))]

\* variant in which the exception is handled inside the atomic block, so that
\* the writes made before the backend call are committed
rollback_commits(entry, current) == current

\* leaving the atomic block by an exception: the tables as they were on entry
rollback(entry, current) == entry

\* the last request answered: the operation, the body of an accepted update-info
\* request, the HTTP status and, for a chat answered 200, the fields session_id,
\* message, conversation_step and needs_information of response_data; backend
\* tells whether the request called the backend ("none") and how the call ended
Response(op, req, status, sid, step, needs, backend) ==
  [op |-> op, req |-> req, status |-> status, session_id |-> sid,
   conversation_step |-> step, needs_information |-> needs, backend |-> backend]

\* nothing kept of the request
NoBody == <<>>

Idle == UNCHANGED <<pc, loc, analysis>>

\* variant of the handler that stores the user message before it validates
\* the request
ChatInvalid_stores(raw, session_id, request_data) ==
  /\ ~Validation(raw).valid
  /\ session_id \in DOMAIN sessions
  /\ messages' = Append(messages, UserMessage(session_id))
  /\ response' = Response("chat", NoBody, 400, NoToken, "", <<>>, "none")
  /\ UNCHANGED <<sessions, contexts>>
  /\ Idle

\* invalid request: HTTP 400
ChatInvalid(raw, session_id, request_data) ==
  /\ ~Validation(raw).valid
  /\ response' = Response("chat", NoBody, 400, NoToken, "", <<>>, "none")
  /\ UNCHANGED <<sessions, contexts, messages>>
  /\ Idle

\* the tables at the entry of the atomic block
Tables == [sessions |-> sessions, contexts |-> contexts, messages |-> messages]

\* the tables t become the stored ones
Stored(t) ==
  /\ sessions' = t.sessions
  /\ contexts' = t.contexts
  /\ messages' = t.messages

\* the atomic block commits with the tables of a, and response_data is returned
Answer200(a, message) ==
  /\ a.created => a.sid \in SessionIds
  /\ Stored(a)
  /\ response' = Response("chat", message, 200, a.sid,
                          a.contexts[a.sid].current_step,
                          get_missing_info(a.contexts[a.sid]), "answered")

\* the backend answers: HTTP 200
ChatOk(raw, session_id, request_data) ==
  /\ Validation(raw).valid
  /\ Len(messages) < 2 * MaxChats
  /\ Answer200(after_backend(before_backend(sessions, contexts, messages, session_id,
                                            request_data, Validation(raw).message)),
               Validation(raw).message)
  /\ Idle

\* the backend was called with the payload of b and raised: the atomic
\* block is left by the exception and the error response is returned
Answer500(b) ==
  /\ Stored(rollback(Tables, b))
  /\ response' = Response("chat", NoBody, 500, NoToken, "", <<>>, "raised")

\* generate_response raises: HTTP 500
ChatBackendError(raw, session_id, request_data) ==
  /\ Validation(raw).valid
  /\ Answer500(before_backend(sessions, contexts, messages, session_id,
                              request_data, Validation(raw).message))
  /\ Idle

(***************************************************************************)
(* views.py : update_user_info, reset_session                              *)
(***************************************************************************)
\* variant of update_user_info that, like the chat path, keeps a stored value
apply_user_info_keep(session, context, body) ==
  LET Put(old, new) == IF new # Absent /\ ~Truthy(old) THEN new ELSE old
  IN [session |-> [session EXCEPT
                     !.user_name    = Put(@, body.user_name),
                     !.user_email   = Put(@, body.user_email),
                     !.user_phone   = Put(@, body.user_phone),
                     !.company_name = Put(@, body.company_name)],
      context |-> [context EXCEPT
                     !.has_name    = IF body.user_name # Absent THEN TRUE ELSE @,
                     !.has_email   = IF body.user_email # Absent THEN TRUE ELSE @,
                     !.has_company = IF body.company_name # Absent THEN TRUE ELSE @]]

\* the four `if ... in validated_data` blocks
apply_user_info(session, context, body) ==
  [session |-> [session EXCEPT
                  !.user_name    = IF body.user_name # Absent THEN body.user_name ELSE @,
                  !.user_email   = IF body.user_email # Absent THEN body.user_email ELSE @,
                  !.user_phone   = IF body.user_phone # Absent THEN body.user_phone ELSE @,
                  !.company_name = IF body.company_name # Absent THEN body.company_name ELSE @],
   context |-> [context EXCEPT
                  !.has_name    = IF body.user_name # Absent THEN TRUE ELSE @,
                  !.has_email   = IF body.user_email # Absent THEN TRUE ELSE @,
                  !.has_company = IF body.company_name # Absent THEN TRUE ELSE @]]

UpdateUserInfo(session_id, body) ==
  /\ session_id \in DOMAIN sessions
  /\ LET u == apply_user_info(sessions[session_id], contexts[session_id], body)
     IN /\ sessions' = [sessions EXCEPT ![session_id] = u.session]
        /\ contexts' = [contexts EXCEPT ![session_id] = u.context]
  /\ response' = Response("update_info", body, 200, session_id, "", <<>>, "none")
  /\ UNCHANGED messages
  /\ Idle

\* variant of update_user_info that looks the session up with get_or_create
UpdateUserInfoNotFound_creates(session_id, body) ==
  /\ session_id \notin DOMAIN sessions
  /\ sessions' = Append(sessions, NewSession(None, None, None))
  /\ contexts' = Append(contexts, NewContext(FALSE, FALSE, FALSE))
  /\ response' = Response("update_info", NoBody, 404, NoToken, "", <<>>, "none")
  /\ UNCHANGED messages
  /\ Idle

\* ChatSession.DoesNotExist: HTTP 404
UpdateUserInfoNotFound(session_id, body) ==
  /\ session_id \notin DOMAIN sessions
  /\ response' = Response("update_info", NoBody, 404, NoToken, "", <<>>, "none")
  /\ UNCHANGED <<sessions, contexts, messages>>
  /\ Idle

\* variant of reset_session that deletes the messages of the session
ResetSession_deletes(session_id) ==
  /\ session_id \in DOMAIN sessions
  /\ sessions' = [sessions EXCEPT ![session_id].status = "archived"]
  /\ messages' = SelectSeq(messages, LAMBDA m : m.session # session_id)
  /\ response' = Response("reset", NoBody, 200, session_id, "", <<>>, "none")
  /\ UNCHANGED contexts
  /\ Idle

\* variant of reset_session that also clears the qualification of the session
ResetSession_unqualify(session_id) ==
  /\ session_id \in DOMAIN sessions
  /\ sessions' = [sessions EXCEPT ![session_id].status = "archived",
                                  ![session_id].is_qualified_lead = FALSE]
  /\ response' = Response("reset", NoBody, 200, session_id, "", <<>>, "none")
  /\ UNCHANGED <<contexts, messages>>
  /\ Idle

ResetSession(session_id) ==
  /\ session_id \in DOMAIN sessions
  /\ sessions' = [sessions EXCEPT ![session_id].status = "archived"]
  /\ response' = Response("reset", NoBody, 200, session_id, "", <<>>, "none")
  /\ UNCHANGED <<contexts, messages>>
  /\ Idle

\* no session_id: HTTP 400; unknown session: HTTP 404
ResetSessionRejected(session_id) ==
  /\ session_id \notin DOMAIN sessions
  /\ response' = Response("reset", NoBody,
                          IF session_id = NoToken THEN 400 ELSE 404, NoToken, "", <<>>, "none")
  /\ UNCHANGED <<sessions, contexts, messages>>
  /\ Idle

(***************************************************************************)
(* Requests processed one after the other                                  *)
(***************************************************************************)
Procs == {1, 2}

NoLocal == [state |-> "none"]

Init ==
  /\ sessions = <<>>
  /\ contexts = <<>>
  /\ messages = <<>>
  /\ response = Response("none", NoBody, 0, NoToken, "", <<>>, "none")
  /\ pc = [p \in Procs |-> "idle"]
  /\ loc = [p \in Procs |-> NoLocal]
  /\ analysis = AnalysisOf(<<>>)

\* the user_name / user_email / company_name of a chat request are read only
\* when the request creates a session
InfosFor(t) == IF t \in DOMAIN sessions THEN {CHOOSE d \in StartInfos : d.user_name = TXT_ANN}
               ELSE StartInfos

Next ==
  \/ \E raw \in RawMessages, t \in Tokens \cup {NoToken} : \E d \in InfosFor(t) : ChatInvalid(raw, t, d)
  \/ \E raw \in RawMessages, t \in Tokens \cup {NoToken} : \E d \in InfosFor(t) : ChatOk(raw, t, d)
  \/ \E raw \in RawMessages, t \in Tokens \cup {NoToken} : \E d \in InfosFor(t) : ChatBackendError(raw, t, d)
  \/ \E t \in Tokens, b \in UpdateBodies : UpdateUserInfo(t, b)
  \/ \E t \in Tokens, b \in UpdateBodies : UpdateUserInfoNotFound(t, b)
  \/ \E t \in Tokens : ResetSession(t)
  \/ \E t \in Tokens \cup {NoToken} : ResetSessionRejected(t)

Spec == Init /\ [][Next]_vars

(***************************************************************************)
(* Chat requests served at the same time                                   *)
(*                                                                         *)
(* The handler reads the session and context rows without locking them     *)
(* (no select_for_update) and writes them back from its own copies.  Under *)
(* the READ COMMITTED isolation of the database a request that has read    *)
(* the rows may run the rest of its atomic block after another request on  *)
(* the same session has committed.  ChatBegin is the read of               *)
(* _get_or_create_session, ChatCommit the rest of the atomic block.        *)
(***************************************************************************)
AllIdle == \A p \in Procs : pc[p] = "idle"

\* Model.save(update_fields=...): the named columns of the row take the object's values
save(row, obj, update_fields) ==
  [f \in DOMAIN row |-> IF f \in update_fields THEN obj[f] ELSE row[f]]

\* the writes on the session row: session.save() when the merge u changed the
\* object read earlier, then increment_message_count, then the qualification;
\* the context ctx is saved whole
session_writes(row, session, u, ctx) ==
  LET updated == u.session # session
      counted == increment_message_count(u.session)
      row1 == IF updated THEN save(row, u.session, DOMAIN row) ELSE row
      row2 == save(row1, counted, {"total_messages"})
      qualified == [counted EXCEPT !.is_qualified_lead = TRUE, !.status = "qualified"]
  IN [session |-> IF is_qualified_lead(counted, ctx)
                  THEN save(row2, qualified, {"is_qualified_lead", "status"})
                  ELSE row2,
      context |-> ctx]

context_writes(row, session, u, intent, message) ==
  session_writes(row, session, u, update_conversation_context(u.context, intent, message))

merge_writes(row, session, context, message, a) ==
  context_writes(row, session, extract_and_update_user_info(a.info, session, context),
                 a.detected.intent, message)

\* the session and context rows after the writes of one chat request whose
\* objects `session` and `context` were read earlier
chat_writes(row, session, context, message) ==
  merge_writes(row, session, context, message, Analysis(message))

\* the number of chat requests followed when two can be in flight
MaxConcChats == 3

\* the request of p reads the rows of the session
ChatBegin(p, raw, session_id) ==
  /\ pc[p] = "idle"
  /\ Validation(raw).valid
  /\ session_id \in DOMAIN sessions
  /\ Len(messages) + 2 * Cardinality({q \in Procs : pc[q] = "running"}) < 2 * MaxConcChats
  /\ pc' = [pc EXCEPT ![p] = "running"]
  /\ loc' = [loc EXCEPT ![p] = [state |-> "read", sid |-> session_id,
                                message |-> Validation(raw).message,
                                session |-> sessions[session_id],
                                context |-> contexts[session_id]]]
  /\ UNCHANGED <<sessions, contexts, messages, response, analysis>>

\* the writes w of the request of p are committed and response_data is returned
Committed(p, sid, w) ==
  /\ sessions' = [sessions EXCEPT ![sid] = w.session]
  /\ contexts' = [contexts EXCEPT ![sid] = w.context]
  /\ messages' = messages \o <<UserMessage(sid), BotMessage(sid, Len(messages) + 1)>>
  /\ response' = Response("chat", loc[p].message, 200, sid, w.context.current_step,
                          get_missing_info(w.context), "answered")

ChatCommit(p) ==
  /\ pc[p] = "running"
  /\ Committed(p, loc[p].sid,
               chat_writes(sessions[loc[p].sid], loc[p].session, loc[p].context,
                           loc[p].message))
  /\ pc' = [pc EXCEPT ![p] = "done"]
  /\ UNCHANGED <<loc, analysis>>

\* generate_response raises: the atomic block is rolled back
ChatAbort(p) ==
  /\ pc[p] = "running"
  /\ response' = Response("chat", NoBody, 500, NoToken, "", <<>>, "raised")
  /\ pc' = [pc EXCEPT ![p] = "failed"]
  /\ UNCHANGED <<sessions, contexts, messages, loc, analysis>>

\* both requests have been answered
Collect ==
  /\ \A p \in Procs : pc[p] \in {"done", "failed"}
  /\ pc' = [p \in Procs |-> "idle"]
  /\ loc' = [p \in Procs |-> NoLocal]
  /\ UNCHANGED <<sessions, contexts, messages, response, analysis>>

NextConc ==
  \/ AllIdle /\ Next /\ Len(messages') <= 2 * MaxConcChats
  \/ \E p \in Procs, raw \in RawMessages, t \in Tokens : ChatBegin(p, raw, t)
  \/ \E p \in Procs : ChatCommit(p)
  \/ \E p \in Procs : ChatAbort(p)
  \/ Collect

SpecConc == Init /\ [][NextConc]_vars

(***************************************************************************)
(* A conversation about the products: chat requests whose messages name    *)
(* products, and resets                                                    *)
(***************************************************************************)
NextProducts ==
  \/ \E raw \in ProductMessages, t \in Tokens \cup {NoToken} : \E d \in InfosFor(t) : ChatOk(raw, t, d)
  \/ \E raw \in ProductMessages, t \in Tokens \cup {NoToken} : \E d \in InfosFor(t) : ChatBackendError(raw, t, d)
  \/ \E t \in Tokens : ResetSession(t)

SpecProducts == Init /\ [][NextProducts]_vars

(***************************************************************************)
(* The detector and the extractor applied to free text: a text is typed    *)
(* word by word, and analysed after each key stroke as the handler         *)
(* analyses the message of a request                                       *)
(***************************************************************************)
Words ==
  { <<"I", "'", "m">>, <<"B", "o", "o", "k">>, <<"d", "e", "m", "o">>, <<"H", "i">>,
    <<"y", "e", "s">>, <<"O", "K">>, <<"y", "e", "p">>, <<"s", "u", "r", "e">> }

EndsWithSpace(t) == t # <<>> /\ IsSpace(t[Len(t)])

\* longest text typed
MaxText == 16

\* a word that the text does not hold yet is typed after it, apart from it by
\* a space
TypeWord(w) ==
  /\ ~Contains(w, analysis.message)
  /\ LET text == IF analysis.message = <<>> \/ EndsWithSpace(analysis.message)
                 THEN analysis.message \o w
                 ELSE analysis.message \o <<" ">> \o w
     IN /\ Len(text) <= MaxText
        /\ analysis' = AnalysisOf(text)
  /\ UNCHANGED <<sessions, contexts, messages, response, pc, loc>>

\* a space is typed before the first word
TypeSpace ==
  /\ analysis.message = <<>>
  /\ analysis' = AnalysisOf(analysis.message \o <<" ">>)
  /\ UNCHANGED <<sessions, contexts, messages, response, pc, loc>>

NextText ==
  \/ \E w \in Words : TypeWord(w)
  \/ TypeSpace

SpecText == Init /\ [][NextText]_vars


(***************************************************************************)
(* Properties                                                              *)
(***************************************************************************)
TXT_JANE == Title(<<"j", "a", "n", "e", " ", "d", "o", "e">>)

\* a request of kind op has just been answered with the given status
Answered(op, status) == response.op = op /\ response.status = status

\* C1: in every session, has_name holds exactly when the name is set, has_email
\* exactly when the email is set, has_company exactly when the company is set
\* (a field is set when it holds a non-empty value).
C1_FlagsAgreeWithFields ==
  \A sid \in DOMAIN sessions :
     /\ contexts[sid].has_name = Truthy(sessions[sid].user_name)
     /\ contexts[sid].has_email = Truthy(sessions[sid].user_email)
     /\ contexts[sid].has_company = Truthy(sessions[sid].company_name)

\* C2: a request other than an accepted update-info request (so every chat
\* request) changes neither the name, nor the email, nor the company of a
\* session in which that field is already set.
C2_FirstWriteWins ==
  [][~(response'.op = "update_info" /\ response'.status = 200) =>
       \A sid \in DOMAIN sessions :
          /\ Truthy(sessions[sid].user_name) => sessions'[sid].user_name = sessions[sid].user_name
          /\ Truthy(sessions[sid].user_email) => sessions'[sid].user_email = sessions[sid].user_email
          /\ Truthy(sessions[sid].company_name) => sessions'[sid].company_name = sessions[sid].company_name]_vars

\* C2 witness: a chat has been answered whose message yields a name by extraction,
\* on a session that holds a different name (so the name was set before the chat).
C2_Witness ==
  /\ Answered("chat", 200)
  /\ Truthy(Analysis(response.req).info.name)
  /\ Truthy(sessions[response.session_id].user_name)
  /\ sessions[response.session_id].user_name # Analysis(response.req).info.name
  /\ sessions[response.session_id].total_messages >= 2

\* C3: an accepted update-info request stores every field it carries and raises
\* the flag of that field; a field it does not carry keeps its value and flag.
C3_UpdateOverwrites ==
  [][(response'.op = "update_info" /\ response'.status = 200) =>
       LET sid  == response'.session_id
           body == response'.req
           Carried(field, flag) ==
             IF body[field] # Absent
             THEN sessions'[sid][field] = body[field] /\ (flag # "" => contexts'[sid][flag])
             ELSE /\ sessions'[sid][field] = sessions[sid][field]
                  /\ flag # "" => contexts'[sid][flag] = contexts[sid][flag]
       IN /\ Carried("user_name", "has_name")
          /\ Carried("user_email", "has_email")
          /\ Carried("user_phone", "")
          /\ Carried("company_name", "has_company")]_vars

\* C3 witness: an update-info request carrying an email has been answered on a
\* session whose name came from the message of Jane Doe, which also gave an
\* email: the stored email was replaced, the name (not carried) was kept.
C3_Witness ==
  /\ Answered("update_info", 200)
  /\ response.req.user_email = TXT_ANN_EMAIL
  /\ response.req.user_name = Absent
  /\ sessions[response.session_id].user_email = TXT_ANN_EMAIL
  /\ sessions[response.session_id].user_name = TXT_JANE

\* C4: once is_qualified_lead is true for a session it is true after every
\* further request.
C4_QualifiedNeverReverts ==
  [][\A sid \in DOMAIN sessions :
       sessions[sid].is_qualified_lead => sessions'[sid].is_qualified_lead]_vars

\* C4 witness: a reset has been answered on a qualified session.
C4_Witness ==
  /\ Answered("reset", 200)
  /\ sessions[response.session_id].is_qualified_lead

\* C5: a chat request answered 500 leaves the three tables as they were.
C5_BackendFailureRollsBack ==
  [][(response'.op = "chat" /\ response'.status = 500) =>
       /\ sessions' = sessions
       /\ contexts' = contexts
       /\ messages' = messages]_vars

\* C5 witness: a chat request that would have created the session has been
\* answered 500 and no session, context or message exists.
C5_Witness ==
  /\ Answered("chat", 500)
  /\ sessions = <<>>
  /\ contexts = <<>>
  /\ messages = <<>>

\* one chat request processed alone on a session and a context: the rows it leaves
Alone(session, context, message) ==
  LET a == after_backend(before_backend(<<session>>, <<context>>, <<>>, 1,
                                        CHOOSE d \in StartInfos : TRUE, message))
  IN <<a.sessions[1], a.contexts[1]>>

\* C6: when two chat requests on one session have both been answered 200, the
\* message count has grown by 2 and the session and context rows are those that
\* the two requests leave when processed one after the other, in some order.
C6_NoLostUpdate ==
  (\A p \in Procs : pc[p] = "done") /\ loc[1].sid = loc[2].sid =>
     LET sid   == loc[1].sid
         first == IF loc[1].session.total_messages <= loc[2].session.total_messages
                  THEN 1 ELSE 2
         base  == loc[first]
         Serial(m1, m2) ==
           LET r == Alone(base.session, base.context, m1) IN Alone(r[1], r[2], m2)
     IN /\ sessions[sid].total_messages = base.session.total_messages + 2
        /\ <<sessions[sid], contexts[sid]>> \in
             {Serial(loc[1].message, loc[2].message), Serial(loc[2].message, loc[1].message)}

\* C7: a session whose status is archived keeps that status.
C7_ArchivedIsTerminal ==
  [][\A sid \in DOMAIN sessions :
       sessions[sid].status = "archived" => sessions'[sid].status = "archived"]_vars

\* C8: a chat or reset request changes the status of a session only when that
\* status is active.
C8_StatusChangesFromActive ==
  [][response'.op \in {"chat", "reset"} =>
       \A sid \in DOMAIN sessions :
          sessions'[sid].status # sessions[sid].status => sessions[sid].status = "active"]_vars

\* C9: for the context of every session and every message, updating the context
\* twice with that message and its intent leaves the step that updating it once leaves.
C9_StepUpdateIdempotent ==
  \A sid \in DOMAIN contexts : \A m \in Messages :
     LET intent == Analysis(m).detected.intent
         once   == update_conversation_context(contexts[sid], intent, m)
         twice  == update_conversation_context(once, intent, m)
     IN twice.current_step = once.current_step

Rank(field) == CASE field = "name" -> 1 [] field = "email" -> 2 [] field = "company" -> 3

\* C10: the missing-info list of every context holds name iff has_name is false,
\* email iff has_email is false, company iff has_company is false and
\* asked_for_demo is true, each at most once and in that order.
C10_MissingInfo ==
  \A sid \in DOMAIN contexts :
     LET c == contexts[sid]
         m == get_missing_info(c)
     IN /\ Range(m) \subseteq {"name", "email", "company"}
        /\ ("name" \in Range(m)) = ~c.has_name
        /\ ("email" \in Range(m)) = ~c.has_email
        /\ ("company" \in Range(m)) = (~c.has_company /\ c.asked_for_demo)
        /\ \A i, j \in DOMAIN m : i < j => Rank(m[i]) < Rank(m[j])

\* C10 witness: a chat has been answered on a session past the greeting step with
\* no name, email or company and no demo asked for: name and email are reported
\* missing, company is not.
C10_Witness ==
  /\ Answered("chat", 200)
  /\ LET c == contexts[response.session_id]
     IN /\ ~c.has_name /\ ~c.has_email /\ ~c.has_company /\ ~c.asked_for_demo
        /\ c.current_step = "info_collection"
  /\ response.needs_information = <<"name", "email">>

\* the steps in their order: the keys of CONVERSATION_STEPS, then completed
STEP_ORDER ==
  <<"greeting", "info_collection", "product_discussion", "qualification",
    "demo_booking", "completed">>

StepRank(step) == CHOOSE i \in DOMAIN STEP_ORDER : STEP_ORDER[i] = step

\* C11: no request moves the step of a session to a step that comes earlier in
\* the order greeting, info_collection, product_discussion, qualification,
\* demo_booking, completed.
C11_StepNeverRegresses ==
  [][\A sid \in DOMAIN contexts :
       StepRank(contexts'[sid].current_step) >= StepRank(contexts[sid].current_step)]_vars

\* C11 witness: a chat asking for a demo has been answered on a session that is
\* past info_collection and whose company is unknown: information is missing
\* again and the step is still product_discussion.
C11_Witness ==
  /\ Answered("chat", 200)
  /\ response.conversation_step = "product_discussion"
  /\ response.needs_information = <<"company">>
  /\ contexts[response.session_id].asked_for_demo

\* C12: a chat answered 200 on a session whose step was info_collection and
\* whose name or email was unknown leaves the step at info_collection when the
\* name or the email is still unknown after it, and moves it to
\* product_discussion when both are known after it.
C12_InfoCollectionUntilNameAndEmail ==
  [][(response'.op = "chat" /\ response'.status = 200
        /\ response'.session_id \in DOMAIN contexts
        /\ contexts[response'.session_id].current_step = "info_collection"
        /\ ~(contexts[response'.session_id].has_name
               /\ contexts[response'.session_id].has_email)) =>
       LET c == contexts'[response'.session_id]
       IN c.current_step = IF c.has_name /\ c.has_email THEN "product_discussion"
                           ELSE "info_collection"]_vars

\* C13: after a chat answered 200 on a session with a demo asked for and name,
\* email and company known, the step of the session is demo_booking.
C13_DemoBookingWhenComplete ==
  Answered("chat", 200) =>
    LET c == contexts[response.session_id]
    IN (c.asked_for_demo /\ c.has_name /\ c.has_email /\ c.has_company)
         => c.current_step = "demo_booking"

\* C14: a chat that creates a session from no supplied information, and whose
\* message yields a name and an email and no company, leaves has_name and
\* has_email true, has_company false and the step at product_discussion.
C14_FreshSessionAdvances ==
  [][(response'.op = "chat" /\ response'.status = 200
        /\ response'.session_id \notin DOMAIN sessions
        /\ LET info == Analysis(response'.req).info
               s    == sessions'[response'.session_id]
           IN /\ Truthy(info.name) /\ Truthy(info.email) /\ ~Truthy(info.company)
              /\ s.user_name = info.name /\ s.user_email = info.email
              /\ s.company_name = None) =>
       LET c == contexts'[response'.session_id]
       IN /\ c.has_name /\ c.has_email /\ ~c.has_company
          /\ c.current_step = "product_discussion"]_vars

\* the valid chat requests that can be made in the current state, as
\* <<message, session_id, request_data>>
ChatRequests ==
  {r \in Messages \X (Tokens \cup {NoToken}) \X StartInfos : r[3] \in InfosFor(r[2])}

\* the atomic block of the request r run up to the backend call
BeforeBackend(r) == before_backend(sessions, contexts, messages, r[2], r[3], r[1])

\* the texts of the annotations of a prompt
Annotations(prompt) == {prompt.context_parts[i][1] : i \in DOMAIN prompt.context_parts}

\* C15: in the prompt of every chat request on a session with a demo asked for,
\* the demo annotation is the one that tells to provide the booking link exactly
\* when nothing is missing, and the one that asks for remaining information
\* exactly when something is missing.
C15_DemoAnnotationFollowsMissingInfo ==
  \A r \in ChatRequests :
     LET b       == BeforeBackend(r)
         context == b.contexts[b.sid]
         notes   == Annotations(b.backend_request.prompt)
     IN context.asked_for_demo =>
          /\ ("DEMO REQUESTED - USER HAS ALL INFO - PROVIDE LINK" \in notes)
               = (get_missing_info(context) = <<>>)
          /\ ("DEMO REQUESTED - Need company name, then provide link" \in notes)
               = (get_missing_info(context) # <<>>)

\* C16: in the payload of every chat request the user message created by the
\* request occurs once, as the last entry (the live turn), and so not in the
\* history that precedes it.
C16_HistoryExcludesCurrentMessage ==
  \A r \in ChatRequests :
     LET b        == BeforeBackend(r)
         contents == b.backend_request.contents
     IN /\ contents[Len(contents)] = [role |-> "user", message |-> b.user_msg]
        /\ \A k \in 1..(Len(contents) - 1) : contents[k].message # b.user_msg

\* C16 witness: a chat has been answered on a session that held ten messages
\* before it, so that the read of the history was cut by the limit.
C16_Witness ==
  /\ Answered("chat", 200)
  /\ Len(SelectSeq(messages, LAMBDA m : m.session = response.session_id)) = HISTORY_LIMIT + 2

\* the ids of the messages of session sid stored in ms before message id
Earlier(ms, sid, id) ==
  SelectSeq([i \in 1..Len(ms) |-> i], LAMBDA i : i < id /\ ms[i].session = sid)

\* C17: the history in the payload of every chat request is made of the most
\* recent messages of the session that precede the current user message, in
\* chronological order: all of them, or the newest ones up to the limit (the
\* message just before the current one is among them).
C17_HistoryIsMostRecent ==
  \A r \in ChatRequests :
     LET b        == BeforeBackend(r)
         contents == b.backend_request.contents
         history  == [k \in 1..(Len(contents) - 1) |-> contents[k].message]
         earlier  == Earlier(b.messages, b.sid, b.user_msg)
     IN /\ Len(history) <= Len(earlier)
        /\ history = SubSeq(earlier, Len(earlier) - Len(history) + 1, Len(earlier))
        /\ Len(history) = Len(earlier)
             \/ Len(history) \in {HISTORY_LIMIT - 1, HISTORY_LIMIT}

\* C18: a chat request answered 400 leaves the three tables as they were and
\* makes no call to the backend.
C18_InvalidChatChangesNothing ==
  [][(response'.op = "chat" /\ response'.status = 400) =>
       /\ sessions' = sessions /\ contexts' = contexts /\ messages' = messages
       /\ response'.backend = "none"]_vars

\* C18 witness: a blank message has been answered 400 on a session that exists,
\* whose rows and messages are still there.
C18_Witness ==
  /\ Answered("chat", 400)
  /\ sessions # <<>>
  /\ messages # <<>>

\* C19: an update-info request answered 404 creates no session and no context
\* and leaves every stored session, context and message as it was.
C19_UnknownSessionUpdateChangesNothing ==
  [][(response'.op = "update_info" /\ response'.status = 404) =>
       /\ sessions' = sessions /\ contexts' = contexts /\ messages' = messages]_vars

\* C19 witness: an update-info request for an id that matches no row has been
\* answered 404 while a session, its context and its messages are stored.
C19_Witness ==
  /\ Answered("update_info", 404)
  /\ sessions # <<>>
  /\ contexts # <<>>
  /\ messages # <<>>

\* C20: once a chat has been answered 200 on a session whose name, email and
\* company are all present and whose context has asked_for_demo, the session has
\* status 'qualified' and is_qualified_lead, however few messages it has had.
C20_StrictQualification ==
  Answered("chat", 200) =>
    LET session == sessions[response.session_id]
        context == contexts[response.session_id]
    IN (/\ Truthy(session.user_name)
        /\ Truthy(session.user_email)
        /\ Truthy(session.company_name)
        /\ context.asked_for_demo)
       => (session.status = "qualified" /\ session.is_qualified_lead)

\* C21: a chat answered 200 leaves the session with is_qualified_lead and status
\* 'qualified' when at least 3 of the 4 criteria hold on the rows it leaves
\* (name and email known, a preferred product, total_messages >= 3, demo or
\* pricing asked), and otherwise leaves both columns as they were before the
\* request (the column defaults for a session the request created).
C21_WeightedQualification ==
  [][(response'.op = "chat" /\ response'.status = 200) =>
       LET sid     == response'.session_id
           session == sessions'[sid]
           context == contexts'[sid]
           before  == IF sid \in DOMAIN sessions THEN sessions[sid]
                      ELSE NewSession(None, None, None)
           met     == {k \in 1..4 :
                         \/ k = 1 /\ context.has_name /\ context.has_email
                         \/ k = 2 /\ BagToSet(context.preferred_products) # {}
                         \/ k = 3 /\ session.total_messages >= 3
                         \/ k = 4 /\ (context.asked_for_demo \/ context.asked_for_pricing)}
       IN IF Cardinality(met) >= 3
          THEN session.is_qualified_lead /\ session.status = "qualified"
          ELSE /\ session.is_qualified_lead = before.is_qualified_lead
               /\ session.status = before.status]_vars

\* C21 witness: a session is qualified by its third message although it never
\* named a product, and so was left unqualified by the two messages before.
C21_Witness ==
  /\ Answered("chat", 200)
  /\ sessions[response.session_id].status = "qualified"
  /\ sessions[response.session_id].total_messages = 3
  /\ contexts[response.session_id].preferred_products = EmptyBag

\* score(i) of the reference: how many patterns of the i-th intent of the table
\* occur in the lower-cased text
Occurs(pattern, text) ==
  \E p \in 1..(Len(text) - Len(pattern) + 1) : SubSeq(text, p, p + Len(pattern) - 1) = pattern

RefScore(i, text) ==
  LET patterns == INTENT_PATTERNS[i].patterns
      lowered  == Lower(text)
  IN Cardinality({j \in 1..Len(patterns) : Occurs(patterns[j], lowered)})

\* the scores of the intents, in the order of the table
RefScores(text) ==
  <<RefScore(1, text), RefScore(2, text), RefScore(3, text), RefScore(4, text),
    RefScore(5, text), RefScore(6, text), RefScore(7, text)>>

\* C22: detect_intent returns ('general_inquiry', 0.5) for a text in which no
\* pattern occurs, and otherwise the intent of maximal score, the one declared
\* first among those of maximal score, with confidence min(score / 3, 1).
C22_DetectIntentReference ==
  LET detected == analysis.detected
      n        == detected.confidence[1]
      d        == detected.confidence[2]
      score    == RefScores(analysis.message)
  IN IF \A i \in DOMAIN score : score[i] = 0
     THEN detected.intent = "general_inquiry" /\ 2 * n = d
     ELSE \E i \in DOMAIN score :
            /\ detected.intent = INTENT_PATTERNS[i].intent
            /\ \A j \in DOMAIN score : j < i => score[j] < score[i]
            /\ \A j \in DOMAIN score : j > i => score[j] <= score[i]
            /\ 3 * n = d * (IF score[i] >= 3 THEN 3 ELSE score[i])

\* C22 witness: a text that begins with a space and in which four patterns of
\* the last intent occur, so that the score exceeds 3.
C22_Witness ==
  /\ analysis.message # <<>>
  /\ analysis.message[1] = " "
  /\ RefScore(7, analysis.message) = 4
  /\ analysis.detected.intent = "confirmation"
  /\ analysis.detected.confidence = <<3, 3>>

\* C23: the name that the extractor returns is never, in any letter case, one of
\* the short replies yes, no, ok, sure, hello, hi, nor the command verb book or
\* demo.
C23_NameNeverShortReplyOrVerb ==
  LET name == analysis.info.name
  IN name # None =>
       Lower(name) \notin NAME_BLOCKLIST \cup {<<"b", "o", "o", "k">>, <<"d", "e", "m", "o">>}

\* C24: for every valid chat request, session resolution either finds the
\* session that the token names and creates nothing, or (no token, or a token
\* that matches no session) adds exactly one session and one context to the
\* rows there are: status active, step greeting, and has_name, has_email and
\* has_company telling whether the request supplied a name, an email, a company.
C24_GetOrCreateSession ==
  \A r \in ChatRequests :
    LET token == r[2]
        data  == r[3]
        g     == get_or_create_session(sessions, contexts, token, data)
        n     == Len(sessions)
    IN IF token \in DOMAIN sessions
       THEN g.sid = token /\ g.sessions = sessions /\ g.contexts = contexts
       ELSE /\ g.sid = n + 1
            /\ Len(g.sessions) = n + 1 /\ SubSeq(g.sessions, 1, n) = sessions
            /\ Len(g.contexts) = n + 1 /\ SubSeq(g.contexts, 1, n) = contexts
            /\ g.sessions[n + 1].status = "active"
            /\ g.contexts[n + 1].current_step = "greeting"
            /\ g.contexts[n + 1].has_name = (data.user_name \notin {None, <<>>})
            /\ g.contexts[n + 1].has_email = (data.user_email \notin {None, <<>>})
            /\ g.contexts[n + 1].has_company = (data.company_name \notin {None, <<>>})

\* C24 witness: a request with no usable token, an empty name and a company
\* has created a session, and a later request has continued it.
C24_Witness ==
  /\ Answered("chat", 200)
  /\ Len(sessions) = 1
  /\ sessions[1].total_messages = 2
  /\ sessions[1].user_name = <<>>
  /\ sessions[1].company_name = TXT_ACME
  /\ contexts[1].has_company /\ ~contexts[1].has_name

PRODUCT_TAGS == {"ARGO", "MARK", "CONSUELO"}

\* C27: after a chat answered 200 the preferred products of the session hold no
\* tag twice and only tags of ARGO, MARK, CONSUELO, and are, as a set, the
\* products held before united with those that the message mentions.
C27_ProductsAreSetUnion ==
  [][(response'.op = "chat" /\ response'.status = 200) =>
       LET sid    == response'.session_id
           after  == contexts'[sid].preferred_products
           before == IF sid \in DOMAIN contexts
                     THEN BagToSet(contexts[sid].preferred_products) ELSE {}
           low    == Lower(response'.req)
           named  == {PRODUCTS[i].tag : i \in {j \in DOMAIN PRODUCTS : Occurs(PRODUCTS[j].key, low)}}
       IN /\ \A tag \in BagToSet(after) : CopiesIn(tag, after) = 1
          /\ BagToSet(after) \subseteq PRODUCT_TAGS
          /\ BagToSet(after) = before \cup named]_vars

\* C27 witness: the three tags have been collected over several messages, the
\* last of which names a product that the session already had.
C27_Witness ==
  /\ Answered("chat", 200)
  /\ response.req = MSG_ARGO
  /\ BagToSet(contexts[response.session_id].preferred_products) = PRODUCT_TAGS
  /\ sessions[response.session_id].total_messages >= 3

\* C28: every stored bot message has a parent, which is the message stored just
\* before it: a user message of the same session, the one that the same chat
\* request created.
C28_BotMessageHasParent ==
  \A i \in DOMAIN messages :
    messages[i].message_type = "bot" =>
      /\ messages[i].parent_message # NoMessage
      /\ messages[i].parent_message = i - 1
      /\ messages[i - 1].message_type = "user"
      /\ messages[i - 1].session = messages[i].session

\* C28 witness: two chats have been answered and a reset has followed, so that
\* two bot messages are stored.
C28_Witness ==
  /\ Answered("reset", 200)
  /\ Len(SelectSeq(messages, LAMBDA m : m.message_type = "bot")) = 2

\* the messages of a session, in the order in which they were stored
MessageLog(ms, sid) == SelectSeq(ms, LAMBDA m : m.session = sid)

\* C29: each request leaves every session with a log of exactly
\* 2 x total_messages messages, a user message at each odd position and a bot
\* message at each even one; a chat answered 200 adds one to the total_messages
\* of its session (which is 1 for a session it created) and leaves the other
\* sessions' counts alone; every other request leaves all counts and all
\* messages as they were.
C29_MessageCount ==
  [][/\ \A sid \in DOMAIN sessions' :
          LET log == MessageLog(messages', sid)
          IN /\ Len(log) = 2 * sessions'[sid].total_messages
             /\ \A i \in DOMAIN log :
                  log[i].message_type = (IF i % 2 = 1 THEN "user" ELSE "bot")
     /\ IF response'.op = "chat" /\ response'.status = 200
        THEN \A sid \in DOMAIN sessions' :
               sessions'[sid].total_messages =
                 (IF sid \in DOMAIN sessions THEN sessions[sid].total_messages ELSE 0)
                 + (IF sid = response'.session_id THEN 1 ELSE 0)
        ELSE /\ messages' = messages
             /\ DOMAIN sessions' = DOMAIN sessions
             /\ \A sid \in DOMAIN sessions :
                  sessions'[sid].total_messages = sessions[sid].total_messages]_vars

\* C29 witness: a session that has had two chats answered, and has been reset,
\* receives an update-info request.
C29_Witness ==
  /\ Answered("update_info", 200)
  /\ sessions[response.session_id].total_messages = 2
  /\ sessions[response.session_id].status = "archived"
  /\ Len(MessageLog(messages, response.session_id)) = 4

\* C30: every request leaves every session at one of the steps greeting,
\* info_collection, product_discussion, demo_booking, and leaves at demo_booking
\* a session that was there.
C30_ReachableSteps ==
  [][\A sid \in DOMAIN contexts' :
       /\ contexts'[sid].current_step \in
            {"greeting", "info_collection", "product_discussion", "demo_booking"}
       /\ (sid \in DOMAIN contexts /\ contexts[sid].current_step = "demo_booking")
            => contexts'[sid].current_step = "demo_booking"]_vars

\* C30 witness: a session that had reached demo_booking, and has been reset
\* since, has had a further chat answered.
C30_Witness ==
  /\ Answered("chat", 200)
  /\ contexts[response.session_id].current_step = "demo_booking"
  /\ sessions[response.session_id].status = "archived"

====
